---- MODULE Spec2Model ----
(***************************************************************************)
(* Model of the quadrature convolution operator (torch_quadconv/quadconv.py)*)
(* and of the voxelizer (core/voxelizer.py).                                *)
(*                                                                          *)
(* Tensors are modelled by their shapes and by symbolic entries: a point is *)
(* a tuple of integers, a decay parameter is a rational <<num, den>>, a     *)
(* quadrature weight, a feature entry and a filter-network output are named *)
(* by where they come from, and a sum of products is the bag of its terms.  *)
(* Indices are 0-based as in the source; sequences are 1-based, so index i  *)
(* reads element i+1.                                                       *)
(***************************************************************************)
EXTENDS Integers, Sequences, FiniteSets, Bags, TLC

VARIABLES op, mesh, last, bumpq, idxq, vox

vars == <<op, mesh, last, bumpq, idxq, vox>>

(***************************************************************************)
(* Bounds of the model.                                                     *)
(***************************************************************************)
MaxChannels == 2
BatchSize == 2
MaxCoord == 3

(***************************************************************************)
(* Generic helpers for tensors.                                             *)
(***************************************************************************)
None == "None"

Abs(x) == IF x < 0 THEN 0 - x ELSE x

Max2(a, b) == IF a >= b THEN a ELSE b

RECURSIVE SumSq(_)
SumSq(z) == IF z = <<>> THEN 0 ELSE Head(z) * Head(z) + SumSq(Tail(z))

\* torch.linalg.vector_norm(z)**4 of one offset: (sqrt(sum z_k^2))^4
Norm4(z) == SumSq(z) * SumSq(z)

\* a - b of two points; the shapes must agree
VecSub(a, b) == [k \in 1..Len(a) |-> a[k] - b[k]]

RECURSIVE SeqToSet(_)
SeqToSet(s) == IF s = <<>> THEN {} ELSE {Head(s)} \cup SeqToSet(Tail(s))

(***************************************************************************)
(* The mesh handle: levels of point sets, one weight per input point, and a *)
(* cursor.  mesh = [cursor]; the point sets of the levels are Levels.       *)
(***************************************************************************)
Levels ==
    << << <<0>>, <<1>>, <<2>> >>,
       << <<0>>, <<1>> >>,
       << <<0>>, <<3>> >>,
       << <<1>> >> >>

MeshLevels(m) == Levels

MeshHasNext(m) == m.cursor < Len(MeshLevels(m))

MeshInputPoints(m) == MeshLevels(m)[m.cursor]

MeshOutputPoints(m) == MeshLevels(m)[m.cursor + 1]

\* the weight vector of the current input point set; entry j is named by
\* the handle, the level and the index
MeshWeights(m) ==
    [j \in 1..Len(MeshInputPoints(m)) |-> <<"w", m.cursor, j - 1>>]

MeshStep(m) == [m EXCEPT !.cursor = m.cursor + 1]

NewMeshHandle == [cursor |-> 1]

(***************************************************************************)
(* Bump kernel.  A value exp(num/den) is kept as its exponent; zero is the  *)
(* value exp(-inf) that 1/(1 - decay*r) = 1/0 produces.                     *)
(***************************************************************************)
\* _bump on one offset: exp(1 - 1/(1 - decay*r)), r = ||z||^4, with
\* decay = dn/dd:  1 - 1/(1 - decay*r) = -(dn*r) / (dd - dn*r)
BumpAt(decay, z) ==
    LET r == Norm4(z)
        den == decay[2] - decay[1] * r
    IN  IF den = 0
          THEN [zero |-> TRUE, num |-> 0, den |-> 1]
          ELSE [zero |-> FALSE, num |-> 0 - decay[1] * r, den |-> den]

\* _bump on a batch of offsets [num_points, spatial_dim]
Bump(decay, zs) == [k \in 1..Len(zs) |-> BumpAt(decay, zs[k])]

(***************************************************************************)
(* Support index builder.                                                   *)
(***************************************************************************)
\* _bump_arg(locs)[i, j] <= 1/decay_param
InSupport(decay, z) == Norm4(z) * decay[1] <= decay[2]

\* the entries of a [po, pi] tensor in row-major order, as <<i, j>>
RowMajor(po, pi) == [k \in 1..(po * pi) |-> <<(k - 1) \div pi, (k - 1) % pi>>]

\* .squeeze() of a tensor of shape `shape`: the axes it keeps
SqueezeAxes(shape) == SelectSeq([a \in 1..Len(shape) |-> a], LAMBDA a : shape[a] # 1)

\* torch.nonzero(tf_vec, as_tuple=False) of the squeezed [po, pi, 1] mask:
\* one row per true entry, one column per axis that squeeze() kept
EvalIndices(output_points, input_points, decay) ==
    LET po == Len(output_points)
        pi == Len(input_points)
        axes == SqueezeAxes(<<po, pi, 1>>)
        hit == SelectSeq(RowMajor(po, pi),
                 LAMBDA p : InSupport(decay,
                     VecSub(output_points[p[1] + 1], input_points[p[2] + 1])))
    IN  [cols |-> Len(axes),
         rows |-> [k \in 1..Len(hit) |-> [a \in 1..Len(axes) |-> hit[k][axes[a]]]]]

NoIndices == [cols |-> 0, rows |-> <<>>]

\* eval_indices[:, c]
HasColumn(idx, c) == c < idx.cols

Column(idx, c) == [k \in 1..Len(idx.rows) |-> idx.rows[k][c + 1]]

(***************************************************************************)
(* QuadConv construction.                                                   *)
(***************************************************************************)
FilterModes == {"single", "share_in", "nested"}

\* the attributes __init__ and _init_filter set on the operator
QuadConvAttrs ==
    {"spatial_dim", "in_points", "out_points", "out_channels", "in_channels",
     "output_same", "cache", "cached", "verbose", "decay_param", "filter",
     "H", "G", "bias"}

\* decay_param: the given one, or (in_points/16)**2
DecayParam(decay_param, in_points) ==
    IF decay_param = None THEN <<in_points * in_points, 256>> ELSE decay_param

\* the operator before any construction
NoOp ==
    [status |-> "none", err |-> "none", spatial_dim |-> 0, in_points |-> 0,
     out_points |-> 0, in_channels |-> 0, out_channels |-> 0,
     filter_mode |-> "none", decay_param |-> <<1, 1>>, bias |-> FALSE,
     output_same |-> FALSE, cache |-> FALSE, cached |-> FALSE,
     eval_indices |-> NoIndices]

\* (a variant of InitFilterOk that lacks the final else: raise)
InitFilterAny(filter_mode) == TRUE

\* _init_filter accepts the mode
InitFilterOk(filter_mode) == filter_mode \in FilterModes

\* assert spatial_dim > 0
SpatialDimOk(spatial_dim) == spatial_dim > 0

\* __init__: the operator a construction with arguments `a` leaves
QuadConvInit(a) ==
    LET set == [NoOp EXCEPT !.spatial_dim = a.spatial_dim,
                            !.in_points = a.in_points,
                            !.out_points = a.out_points,
                            !.in_channels = a.in_channels,
                            !.out_channels = a.out_channels,
                            !.filter_mode = a.filter_mode,
                            !.decay_param = DecayParam(a.decay_param, a.in_points),
                            !.bias = a.bias,
                            !.output_same = a.output_same,
                            !.cache = a.cache,
                            !.cached = FALSE]
    IN  IF ~SpatialDimOk(a.spatial_dim)
          THEN [set EXCEPT !.status = "error", !.err = "AssertionError"]
        ELSE IF ~InitFilterOk(a.filter_mode)
          THEN [set EXCEPT !.status = "error", !.err = "ValueError"]
        ELSE [set EXCEPT !.status = "ok"]

(***************************************************************************)
(* The filter.  A network output is named [net, col, at]: column col of the *)
(* output of network net at offset at.                                      *)
(***************************************************************************)
\* number of networks of the mode and the width of each one's output
NumNets(o) ==
    IF o.filter_mode = "single" THEN 1
    ELSE IF o.filter_mode = "share_in" THEN o.out_channels
    ELSE o.in_channels * o.out_channels

NetWidth(o) ==
    IF o.filter_mode = "single" THEN o.in_channels * o.out_channels
    ELSE IF o.filter_mode = "share_in" THEN o.in_channels
    ELSE 1

\* the names the mode's H reads for reshape(-1, <in>, <out>)
ReshapeAttrs(o) ==
    IF o.filter_mode = "share_in" THEN {"channels_in", "channels_out"}
    ELSE {"in_channels", "out_channels"}

\* torch.cat([module(z) for module in filter]) is [nets*n, width];
\* reshape(-1, in, out) reads it in row-major order: entry [k, c, o]
\* (0-based) is flat element k*in*out + c*out + o
CatReshapeEntry(o, zs, k, c, oc) ==
    LET n == Len(zs)
        flat == k * o.in_channels * o.out_channels + c * o.out_channels + oc
        row == flat \div NetWidth(o)
    IN  [net |-> row \div n, col |-> flat % NetWidth(o), at |-> zs[(row % n) + 1]]

\* self.H(z): [err, shape, val]
H(o, zs, dim) ==
    LET n == Len(zs)
        total == NumNets(o) * n * NetWidth(o)
    IN  IF dim # o.spatial_dim
          THEN [err |-> "RuntimeError", shape |-> <<>>, val |-> <<>>]
        ELSE IF ~(ReshapeAttrs(o) \subseteq QuadConvAttrs)
          THEN [err |-> "AttributeError", shape |-> <<>>, val |-> <<>>]
        ELSE [err |-> "none",
              shape |-> <<total \div (o.in_channels * o.out_channels),
                          o.in_channels, o.out_channels>>,
              val |-> [k \in 1..n |-> [c \in 1..o.in_channels |->
                         [oc \in 1..o.out_channels |->
                            CatReshapeEntry(o, zs, k - 1, c - 1, oc - 1)]]]]

\* self.G(z) = self._bump(z) * self.H(z)
G(o, zs, dim) ==
    LET b == Bump(o.decay_param, zs)
        h == H(o, zs, dim)
    IN  IF h.err # "none" THEN h
        ELSE [h EXCEPT !.val = [k \in 1..Len(zs) |-> [c \in 1..o.in_channels |->
                         [oc \in 1..o.out_channels |->
                            [bump |-> b[k], h |-> h.val[k][c][oc]]]]]]

(***************************************************************************)
(* QuadConv.forward, statement by statement.  A frame is the state of one   *)
(* call: the operator and the handle as the call has left them so far, the  *)
(* handle operations it has made (log), its locals, and the error that      *)
(* ended it.  A statement after an error does nothing.                      *)
(***************************************************************************)
Frame0(o, m, feat) ==
    [op |-> o, mesh |-> m, feat |-> feat, err |-> "none", log |-> <<>>,
     built |-> FALSE, idx |-> NoIndices, weights |-> <<>>, locs |-> <<>>,
     fshape |-> <<>>, filters |-> <<>>, values |-> <<>>, integral |-> <<>>,
     out |-> <<>>]

Fail(f, e) == [f EXCEPT !.err = e]

\* every index of the sequence js addresses a dimension of size n
AllBelow(js, n) == \A k \in 1..Len(js) : js[k] < n

\* a[js]: gather by 0-based indices
Gather(a, js) == [k \in 1..Len(js) |-> a[js[k] + 1]]

\* (a variant of UsesCached that never takes the cached branch)
UsesCachedNever(o) == FALSE

\* if self.cached: the stored set is used
UsesCached(o) == o.cached

\* (a variant of StepsHandle that steps in both branches)
StepsHandleAlways(o) == TRUE

\* mesh.step() is in the else branch of `if self.output_same`
StepsHandle(o) == ~o.output_same

\* _compute_eval_indices(mesh)
ComputeEvalIndices(f) ==
    LET o == f.op
        input_points == MeshInputPoints(f.mesh)
        output_points == IF o.output_same THEN input_points
                         ELSE MeshOutputPoints(f.mesh)
        reads == IF o.output_same THEN <<"input_points">>
                 ELSE <<"input_points", "output_points">>
        g == [f EXCEPT !.log = f.log \o reads, !.built = TRUE]
        idx == EvalIndices(output_points, input_points, o.decay_param)
    IN  IF Len(input_points) # o.in_points THEN Fail(g, "AssertionError")
        ELSE IF Len(output_points) # o.out_points THEN Fail(g, "AssertionError")
        ELSE IF o.cache
          THEN [g EXCEPT !.idx = idx,
                         !.op = [o EXCEPT !.eval_indices = idx, !.cached = TRUE]]
        ELSE [g EXCEPT !.idx = idx]

\* if self.cached: eval_indices = self.eval_indices
\* else: eval_indices = self._compute_eval_indices(mesh)
GetEvalIndices(f) ==
    IF f.err # "none" THEN f
    ELSE IF UsesCached(f.op) THEN [f EXCEPT !.idx = f.op.eval_indices]
    ELSE ComputeEvalIndices(f)

\* weights = mesh.weights()[eval_indices[:,1]]
GetWeights(f) ==
    IF f.err # "none" THEN f
    ELSE LET w == MeshWeights(f.mesh)
             g == [f EXCEPT !.log = Append(f.log, "weights")]
         IN  IF ~HasColumn(f.idx, 1) THEN Fail(g, "IndexError")
             ELSE IF ~AllBelow(Column(f.idx, 1), Len(w)) THEN Fail(g, "IndexError")
             ELSE [g EXCEPT !.weights = Gather(w, Column(f.idx, 1))]

\* eval_locs = <left>()[eval_indices[:,0]] - mesh.input_points()[eval_indices[:,1]]
\* and, when the output points are the handle's, mesh.step()
ComputeEvalLocs(f) ==
    IF f.err # "none" THEN f
    ELSE LET same == f.op.output_same
             leftName == IF same THEN "input_points" ELSE "output_points"
             left == IF same THEN MeshInputPoints(f.mesh)
                     ELSE MeshOutputPoints(f.mesh)
             right == MeshInputPoints(f.mesh)
             g1 == [f EXCEPT !.log = Append(f.log, leftName)]
             g2 == [g1 EXCEPT !.log = Append(g1.log, "input_points")]
             locs == [k \in 1..Len(f.idx.rows) |->
                        VecSub(left[f.idx.rows[k][1] + 1], right[f.idx.rows[k][2] + 1])]
         IN  IF ~AllBelow(Column(f.idx, 0), Len(left)) THEN Fail(g1, "IndexError")
             ELSE IF ~AllBelow(Column(f.idx, 1), Len(right)) THEN Fail(g2, "IndexError")
             ELSE IF ~StepsHandle(f.op) THEN [g2 EXCEPT !.locs = locs]
             ELSE [g2 EXCEPT !.locs = locs,
                             !.log = Append(g2.log, "step"),
                             !.mesh = MeshStep(f.mesh)]

\* the dimension of the offsets of the call
LocDim(f) == Len(MeshLevels(f.mesh)[1][1])

\* filters = self.G(eval_locs)
ComputeFilter(f) ==
    IF f.err # "none" THEN f
    ELSE LET g == G(f.op, f.locs, LocDim(f))
         IN  IF g.err # "none" THEN Fail(f, g.err)
             ELSE [f EXCEPT !.filters = g.val, !.fshape = g.shape]

\* one product weights[n] * filters[n,i,j] * features[b,i,n]
Term(w, g, x) == <<"t", w, g, x>>

\* the size of an einsum label shared by operands of sizes a and b
Broadcastable(a, b) == a = b \/ a = 1 \/ b = 1

\* index into a dimension of size `size` that may be broadcast
Bc(c, size) == IF size = 1 THEN 1 ELSE c

RECURSIVE BagSum(_, _)
\* the sum t[1] + ... + t[n] of bags
BagSum(t, n) == IF n = 0 THEN EmptyBag ELSE BagSum(t, n - 1) (+) t[n]

\* values = torch.einsum('n, nij, bin -> bjn', weights, filters,
\*                       features[:,:,eval_indices[:,1]])
Quadrature(f) ==
    IF f.err # "none" THEN f
    ELSE LET js == Column(f.idx, 1)
             cin == f.op.in_channels
             cf == f.feat.channels
             ci == Max2(cin, cf)
         IN  IF ~AllBelow(js, f.feat.points) THEN Fail(f, "IndexError")
             ELSE IF ~Broadcastable(cin, cf) THEN Fail(f, "RuntimeError")
             ELSE [f EXCEPT !.values =
                     [b \in 1..f.feat.batch |-> [oc \in 1..f.op.out_channels |->
                        [k \in 1..Len(js) |->
                           BagSum([c \in 1..ci |->
                                     SetToBag({Term(f.weights[k],
                                                    f.filters[k][Bc(c, cin)][oc],
                                                    <<"f", b, Bc(c, cf) - 1, js[k]>>)})],
                                  ci)]]]]

RECURSIVE ScatterAdd(_, _, _, _)
\* integral.scatter_add_(2, index, values): for k in order,
\* integral[b][oc][index[k]] += values[b][oc][k]
ScatterAdd(integral, index, values, n) ==
    IF n = 0 THEN integral
    ELSE LET acc == ScatterAdd(integral, index, values, n - 1)
         IN  [b \in DOMAIN acc |-> [oc \in DOMAIN acc[b] |->
                [acc[b][oc] EXCEPT ![index[n] + 1] = @ (+) values[b][oc][n]]]]

\* integral = values.new_zeros(batch, out_channels, out_points); scatter
Scatter(f) ==
    IF f.err # "none" THEN f
    ELSE LET index == Column(f.idx, 0)
             zeros == [b \in 1..f.feat.batch |-> [oc \in 1..f.op.out_channels |->
                         [i \in 1..f.op.out_points |-> EmptyBag]]]
         IN  IF ~AllBelow(index, f.op.out_points) THEN Fail(f, "RuntimeError")
             ELSE [f EXCEPT !.integral = ScatterAdd(zeros, index, f.values, Len(index))]

\* if self.bias is not None: integral += self.bias
AddBias(f) ==
    IF f.err # "none" THEN f
    ELSE IF f.op.bias
      THEN [f EXCEPT !.out =
              [b \in 1..f.feat.batch |-> [oc \in 1..f.op.out_channels |->
                 [i \in 1..f.op.out_points |->
                    f.integral[b][oc][i] (+) SetToBag({<<"bias", oc - 1, i - 1>>})]]]]
    ELSE [f EXCEPT !.out = f.integral]

\* the whole call
ForwardRun(o, m, feat) ==
    AddBias(Scatter(Quadrature(ComputeFilter(ComputeEvalLocs(GetWeights(
        GetEvalIndices(Frame0(o, m, feat))))))))

(***************************************************************************)
(* The operator and the handle as a state machine: one operator instance is *)
(* constructed, then called any number of times with a feature batch and    *)
(* a handle; mesh is the handle as the last call left it.                   *)
(***************************************************************************)
Idle == [kind |-> "idle"]

DecayChoices == {None, <<1, 1>>}

\* the point counts the levels of the schedule have
LevelSizes == {Len(Levels[c]) : c \in 1..Len(Levels)}

\* channel counts: one channel and several
ChannelCounts == {1, MaxChannels}

ConstructArgs ==
    [spatial_dim : 0..1, in_points : LevelSizes, out_points : LevelSizes,
     in_channels : ChannelCounts, out_channels : ChannelCounts,
     filter_mode : FilterModes \cup {"other"}, decay_param : DecayChoices,
     bias : BOOLEAN, output_same : BOOLEAN, cache : BOOLEAN]

\* the shapes of the feature batches a caller passes
Features ==
    [batch : {BatchSize}, channels : ChannelCounts, points : LevelSizes]

NoCall ==
    [kind |-> "none", err |-> "none", log |-> <<>>, built |-> FALSE,
     idx |-> NoIndices, cachedBefore |-> FALSE, meshBefore |-> NewMeshHandle,
     feat |-> [batch |-> 1, channels |-> 1, points |-> 1], fshape |-> <<>>,
     integral |-> <<>>, out |-> <<>>]

\* what a finished call leaves for inspection
CallRecord(o, m, f) ==
    [kind |-> "forward", err |-> f.err, log |-> f.log, built |-> f.built,
     idx |-> f.idx, cachedBefore |-> o.cached, meshBefore |-> m,
     feat |-> f.feat, fshape |-> f.fshape, integral |-> f.integral,
     out |-> f.out]

\* the handles a call may be given: the operators of a chain share one
\* handle, so a call finds it at the level the calls before it left it at
MeshHandles == {[cursor |-> c] : c \in 1..Len(Levels)}

Init ==
    /\ op = NoOp
    /\ mesh = NewMeshHandle
    /\ last = NoCall
    /\ bumpq = Idle
    /\ idxq = Idle
    /\ vox = Idle

Construct ==
    /\ op.status = "none"
    /\ \E a \in ConstructArgs : op' = QuadConvInit(a)
    /\ UNCHANGED <<mesh, last, bumpq, idxq, vox>>

\* forward(mesh, features); an operator that takes its output points from
\* the handle is called only while the schedule has a next level
Forward ==
    /\ op.status = "ok"
    /\ \E m \in MeshHandles, feat \in Features :
         /\ op.output_same \/ MeshHasNext(m)
         /\ \E f \in {ForwardRun(op, m, feat)} :
                /\ op' = f.op
                /\ mesh' = f.mesh
                /\ last' = CallRecord(op, m, f)
    /\ UNCHANGED <<bumpq, idxq, vox>>

Next == Construct \/ Forward

Spec == Init /\ [][Next]_vars

(***************************************************************************)
(* The bump kernel and the support index builder as functions of their      *)
(* inputs: the input is drawn, then the function is applied to it.          *)
(***************************************************************************)
Coords == 0..MaxCoord

\* offsets of dimension 1 and 2
Offsets ==
    {<<x>> : x \in (0 - MaxCoord)..MaxCoord}
      \cup {<<x, y>> : x \in (0 - MaxCoord)..MaxCoord, y \in (0 - MaxCoord)..MaxCoord}

\* decay parameters > 0, as <<num, den>>
Decays == {<<1, 1>>, <<1, 16>>, <<2, 1>>, <<1, 4>>}

InitBump ==
    /\ bumpq \in [kind : {"input"}, decay : Decays, z : Offsets,
                  val : {[zero |-> FALSE, num |-> 0, den |-> 1]}]
    /\ op = NoOp
    /\ mesh = NewMeshHandle
    /\ last = NoCall
    /\ idxq = Idle
    /\ vox = Idle

\* filters = self._bump(z) for a batch of one offset
BumpEval ==
    /\ bumpq.kind = "input"
    /\ bumpq' = [bumpq EXCEPT !.kind = "done",
                              !.val = Bump(bumpq.decay, <<bumpq.z>>)[1]]
    /\ UNCHANGED <<op, mesh, last, idxq, vox>>

NextBump == BumpEval

SpecBump == InitBump /\ [][NextBump]_vars

\* point sets of up to MaxSetPoints points, of dimension 1 and of dimension 2
MaxSetPoints == 2

PointSets1 ==
    UNION {[1..n -> {<<x>> : x \in Coords}] : n \in 1..MaxSetPoints}

PointSets2 ==
    UNION {[1..n -> {<<x, y>> : x \in 0..1, y \in 0..1}] : n \in 1..MaxSetPoints}

InitIdx ==
    /\ idxq \in [kind : {"input"}, output_points : PointSets1,
                 input_points : PointSets1, decay : Decays, idx : {NoIndices}]
               \cup [kind : {"input"}, output_points : PointSets2,
                     input_points : PointSets2, decay : Decays, idx : {NoIndices}]
    /\ op = NoOp
    /\ mesh = NewMeshHandle
    /\ last = NoCall
    /\ bumpq = Idle
    /\ vox = Idle

\* idx of _compute_eval_indices for the point sets and the decay parameter
IdxBuild ==
    /\ idxq.kind = "input"
    /\ idxq' = [idxq EXCEPT !.kind = "done",
                            !.idx = EvalIndices(idxq.output_points,
                                                idxq.input_points, idxq.decay)]
    /\ UNCHANGED <<op, mesh, last, bumpq, vox>>

NextIdx == IdxBuild

SpecIdx == InitIdx /\ [][NextIdx]_vars

(***************************************************************************)
(* Properties of the operator and the handle (specification Spec).          *)
(***************************************************************************)
Called == last.kind = "forward"

Successful == Called /\ last.err = "none"

CountOf(log, x) == Cardinality({k \in 1..Len(log) : log[k] = x})

\* the point sets of the handle the last call was given
CallInputPoints == MeshInputPoints(last.meshBefore)

CallOutputPoints ==
    IF op.output_same THEN CallInputPoints ELSE MeshOutputPoints(last.meshBefore)

\* C1: a successful forward call advances the handle exactly once when
\* output_same is false and not at all when it is true, and the advance
\* comes after the call has read the weights and the input and output
\* points it takes the offsets from.
StepOncePerCall ==
    Successful =>
        LET n == Len(last.log)
            steps == CountOf(last.log, "step")
        IN  /\ steps = (IF op.output_same THEN 0 ELSE 1)
            /\ mesh.cursor = last.meshBefore.cursor + steps
            /\ \A k \in 1..n : last.log[k] = "step" =>
                 /\ k = n
                 /\ \E a, b, c \in 1..(k - 1) :
                        /\ last.log[a] = "weights"
                        /\ last.log[b] = "output_points"
                        /\ last.log[c] = "input_points"
                        /\ a < b /\ a < c

\* a successful call on a cached set that stepped the handle
StepOncePerCallWitness ==
    Successful /\ ~op.output_same /\ last.cachedBefore /\ mesh.cursor = 2

CacheState ==
    /\ ~op.cache => (~op.cached /\ op.eval_indices = NoIndices)
    /\ Called =>
         /\ last.built = ~last.cachedBefore
         /\ last.cachedBefore => last.idx = op.eval_indices
         /\ (last.err = "none" /\ op.cache) =>
                (op.cached /\ last.idx = op.eval_indices)

CacheKept == op.cached => (op'.cached /\ op'.eval_indices = op.eval_indices)

SupportIndexCurrent ==
    (Called /\ last.err # "AssertionError" /\ last.idx.cols = 2) =>
        /\ last.idx = EvalIndices(CallOutputPoints, CallInputPoints, op.decay_param)
        /\ \A k \in 1..Len(last.idx.rows) :
                 /\ last.idx.rows[k][1] < Len(CallOutputPoints)
                 /\ last.idx.rows[k][2] < Len(CallInputPoints)

\* the filter matrix at one offset: G on a batch of that offset alone
FilterAt(z) == G(op, <<z>>, Len(z)).val[1]

\* the sum the operator is to return in slot (b, oc, i): one term
\* w_j * G(z_ij)[c, oc] * features[b, c, j] per pair (i, j) and channel c
QuadratureSlot(b, oc, i) ==
    SetToBag({Term(MeshWeights(last.meshBefore)[r[2] + 1],
                   FilterAt(VecSub(CallOutputPoints[i + 1],
                                   CallInputPoints[r[2] + 1]))[c][oc],
                   <<"f", b, c - 1, r[2]>>) :
                r \in {q \in SeqToSet(last.idx.rows) : q[1] = i},
                c \in 1..op.in_channels})

\* C6: the result of forward before the bias is, for every batch element,
\* output channel and output index, the sum over the pairs of the support
\* index set and the input channels of w_j * G(z_ij)[c, o] * features[b, c, j].
QuadratureSum ==
    (Successful /\ last.feat.channels = op.in_channels) =>
        \A b \in 1..last.feat.batch, oc \in 1..op.out_channels,
           i \in 0..(op.out_points - 1) :
            last.integral[b][oc][i + 1] = QuadratureSlot(b, oc, i)

\* the shape of a [batch][channel][point] tensor
Shape3(t) == <<Len(t), Len(t[1]), Len(t[1][1])>>

\* a first call whose handle and features agree with the configuration
ValidCall ==
    /\ Called
    /\ ~last.cachedBefore
    /\ Len(CallInputPoints) = op.in_points
    /\ Len(CallOutputPoints) = op.out_points
    /\ Len(CallInputPoints[1]) = op.spatial_dim
    /\ last.feat.points = op.in_points
    /\ last.feat.channels = op.in_channels

\* C7: in each of the three filter modes a call on valid inputs (here: on
\* point sets of two or more points) ends without error, its filter has the
\* shape (num_offsets, in_channels, out_channels) and its output the shape
\* (batch, out_channels, out_points).
FilterModesUniform ==
    (ValidCall /\ op.in_points > 1 /\ op.out_points > 1) =>
        /\ last.err = "none"
        /\ last.fshape = <<Len(last.idx.rows), op.in_channels, op.out_channels>>
        /\ Shape3(last.out) = <<last.feat.batch, op.out_channels, op.out_points>>

\* C8: a forward call whose features have a point count other than in_points,
\* or whose handle has point counts other than in_points/out_points, fails.
ShapeMismatchFails ==
    (Called /\ (\/ last.feat.points # op.in_points
                \/ Len(CallInputPoints) # op.in_points
                \/ Len(CallOutputPoints) # op.out_points)) =>
        last.err # "none"

\* C9: a construction fails exactly when the filter mode is none of
\* 'single', 'share_in', 'nested' or spatial_dim <= 0, and no forward call
\* is ever made on an operator whose construction failed.
ConstructionValidates ==
    LET bad == \/ op.filter_mode \notin {"single", "share_in", "nested"}
               \/ op.spatial_dim <= 0
    IN  /\ op.status # "none" => (op.status = "error" <=> bad)
        /\ op.status = "error" => (~Called /\ op.err \in {"AssertionError", "ValueError"})
        /\ Called => ~bad

\* a construction with an unsupported mode and a positive dimension failed
ConstructionValidatesWitness ==
    op.status = "error" /\ op.filter_mode = "other" /\ op.spatial_dim > 0

\* the handle's point counts or the feature shape of the last call disagree
\* with the configuration of the operator
ShapeViolation ==
    \/ Len(CallInputPoints) # op.in_points
    \/ Len(CallOutputPoints) # op.out_points
    \/ last.feat.points # op.in_points
    \/ last.feat.channels # op.in_channels

\* C14: a forward call that fails with a shape violation (handle point counts
\* or feature shape; here for an operator on point sets of two or more
\* points) leaves the handle's cursor and the stored support index set as
\* they were before the call.  The set is stored only together with the
\* cached flag, so the flag tells whether the call stored one.
FailedCallKeepsState ==
    (/\ Called
     /\ last.err \in {"AssertionError", "IndexError", "RuntimeError"}
     /\ ShapeViolation
     /\ op.in_points > 1 /\ op.out_points > 1) =>
        /\ mesh.cursor = last.meshBefore.cursor
        /\ op.cached = last.cachedBefore

(***************************************************************************)
(* Properties of the support index builder (SpecIdx) and of the bump kernel *)
(* (SpecBump).                                                              *)
(***************************************************************************)
\* the pairs within the support: ||output_point[i] - input_point[j]||^4 <= 1/decay
SupportPairs(output_points, input_points, decay) ==
    {p \in (0..(Len(output_points) - 1)) \X (0..(Len(input_points) - 1)) :
        SumSq(VecSub(output_points[p[1] + 1], input_points[p[2] + 1]))
          * SumSq(VecSub(output_points[p[1] + 1], input_points[p[2] + 1]))
          * decay[1] <= decay[2]}

\* C4: for point sets of one or more points and a decay parameter > 0 the
\* builder returns exactly the pairs (i, j) within the support, each once and
\* each as a two-component (output index, input index) entry.
SupportPairsExact ==
    idxq.kind = "done" =>
        /\ idxq.idx.cols = 2
        /\ SeqToSet(idxq.idx.rows)
             = SupportPairs(idxq.output_points, idxq.input_points, idxq.decay)
        /\ Len(idxq.idx.rows) = Cardinality(SeqToSet(idxq.idx.rows))

\* C5: the bump kernel is exactly 0 at every offset with ||z||^4 * decay >= 1,
\* and a value exp(1 - 1/(1 - decay*r)) is returned only where decay*r < 1,
\* where its denominator is positive.
BumpZeroOutsideSupport ==
    bumpq.kind = "done" =>
        LET r == Norm4(bumpq.z)
            outside == r * bumpq.decay[1] >= bumpq.decay[2]
        IN  /\ outside => bumpq.val.zero
            /\ ~bumpq.val.zero => (~outside /\ bumpq.val.den > 0)

(***************************************************************************)
(* Voxelizer.  Coordinates and the voxel size are in units of 1e-6, so the  *)
(* 1e-6 of the source is one unit.  A voxel value is a fraction <<n, d>> in *)
(* lowest terms.                                                            *)
(***************************************************************************)
Epsilon == 1

\* torch.trunc(a / b) for b > 0
TruncDiv(a, b) == IF a >= 0 THEN a \div b ELSE 0 - ((0 - a) \div b)

\* (a variant of Quantize that divides by the voxel size alone)
QuantizeNoEpsilon(points, voxel_size) ==
    [n \in 1..Len(points) |-> [d \in 1..Len(points[n]) |->
        TruncDiv(points[n][d], voxel_size)]]

\* coords = torch.trunc(points / (self._voxel_size + 1e-6))
Quantize(points, voxel_size) ==
    [n \in 1..Len(points) |-> [d \in 1..Len(points[n]) |->
        TruncDiv(points[n][d], voxel_size + Epsilon)]]

SetMin(S) == CHOOSE x \in S : \A y \in S : x <= y

SetMax(S) == CHOOSE x \in S : \A y \in S : x >= y

\* grid_cluster(coords, size = 1 on every axis): the cell of a point on axis
\* d is coords[d] - min_d, the axis has max_d - min_d + 1 cells, and the
\* cluster id is the cell index with the first axis running fastest
AxisValues(coords, d) == {coords[n][d] : n \in 1..Len(coords)}

AxisCells(coords, d) == SetMax(AxisValues(coords, d)) - SetMin(AxisValues(coords, d)) + 1

RECURSIVE AxisStride(_, _)
AxisStride(coords, d) ==
    IF d = 1 THEN 1 ELSE AxisStride(coords, d - 1) * AxisCells(coords, d - 1)

RECURSIVE ClusterId(_, _, _)
ClusterId(coords, n, d) ==
    IF d = 0 THEN 0
    ELSE ClusterId(coords, n, d - 1)
           + (coords[n][d] - SetMin(AxisValues(coords, d))) * AxisStride(coords, d)

GridCluster(coords) ==
    [n \in 1..Len(coords) |-> ClusterId(coords, n, Len(coords[n]))]

\* consecutive_cluster(cluster): each id replaced by its rank among the ids
ConsecutiveCluster(cluster) ==
    [n \in 1..Len(cluster) |->
        Cardinality({c \in SeqToSet(cluster) : c < cluster[n]})]

RECURSIVE Power(_, _)
Power(g, d) == IF d = 0 THEN 1 ELSE g * Power(g, d - 1)

\* int(num_voxels**(1/point_dim)): the largest g with g^d <= n
IntRoot(n, d) == SetMax({g \in 0..n : Power(g, d) <= n})

RECURSIVE Product(_)
Product(shape) == IF shape = <<>> THEN 1 ELSE Head(shape) * Product(Tail(shape))

\* Voxelizer.__init__(points, voxel_size)
VoxelizerInit(points, voxel_size) ==
    LET point_dim == Len(points[1])
        cluster == GridCluster(Quantize(points, voxel_size))
        num_voxels == SetMax(SeqToSet(cluster)) + 1
    IN  [num_voxels |-> num_voxels,
         indices |-> ConsecutiveCluster(cluster),
         grid_shape |-> [d \in 1..point_dim |-> IntRoot(num_voxels, point_dim)]]

RECURSIVE Gcd(_, _)
Gcd(a, b) == IF b = 0 THEN a ELSE Gcd(b, a % b)

\* the fraction n/d, d > 0, in lowest terms
Frac(n, d) == LET g == Gcd(Abs(n), d) IN <<n \div g, d \div g>>

RECURSIVE SumOver(_, _)
\* the sum of row[n] over the indices n of S
SumOver(row, S) ==
    IF S = {} THEN 0
    ELSE LET n == CHOOSE x \in S : TRUE IN row[n] + SumOver(row, S \ {n})

\* scatter(row, indices, dim_size, reduce="mean") of one [num_points] row:
\* the mean of the members of each voxel, 0 for a voxel without members
ScatterMean(row, indices, dim_size) ==
    [v \in 1..dim_size |->
        LET members == {n \in 1..Len(indices) : indices[n] = v - 1}
        IN  IF members = {} THEN <<0, 1>>
            ELSE Frac(SumOver(row, members), Cardinality(members))]

\* Voxelizer.voxelize(features): [err, shape, val]; val is the grid with its
\* spatial axes flattened
VoxelizeRun(v, features) ==
    LET batch_size == Len(features)
        channels == Len(features[1])
    IN  IF Product(v.grid_shape) # v.num_voxels
          THEN [err |-> "RuntimeError", shape |-> <<>>, val |-> <<>>]
        ELSE [err |-> "none",
              shape |-> <<batch_size, channels>> \o v.grid_shape,
              val |-> [b \in 1..batch_size |-> [c \in 1..channels |->
                         ScatterMean(features[b][c], v.indices, v.num_voxels)]]]

\* Voxelizer.devoxelize(voxels): voxels.reshape(batch, channels, -1)[:,:,indices]
DevoxelizeRun(v, voxels) ==
    [b \in 1..Len(voxels) |-> [c \in 1..Len(voxels[b]) |->
        Gather(voxels[b][c], v.indices)]]

(***************************************************************************)
(* The voxelizer as a state machine: construction on a point set, then      *)
(* voxelize of a feature array, then devoxelize of the grid it returned.    *)
(***************************************************************************)
MaxVoxPoints == 4

VoxCoords == {0, 50000, 1000000, 1050000}

VoxPointSets ==
    UNION {[1..n -> {<<x>> : x \in VoxCoords}] : n \in 1..MaxVoxPoints}
      \cup UNION {[1..n -> {<<x, y>> : x \in {0, 1000000}, y \in {0, 1000000}}] :
                    n \in 1..2}

VoxelSizes == {200000, 2000000}

FeatureValues == {1, 5}

\* feature arrays [batch = 1][channels = 1][num_points]
VoxFeatures(n) == [1..1 -> [1..1 -> [1..n -> FeatureValues]]]

InitVox ==
    /\ vox \in [kind : {"input"}, points : VoxPointSets, voxel_size : VoxelSizes,
                num_voxels : {0}, indices : {<<>>}, grid_shape : {<<>>},
                features : {<<>>}, err : {"none"}, vshape : {<<>>},
                voxels : {<<>>}, out : {<<>>}]
    /\ op = NoOp
    /\ mesh = NewMeshHandle
    /\ last = NoCall
    /\ bumpq = Idle
    /\ idxq = Idle

VoxConstruct ==
    /\ vox.kind = "input"
    /\ \E v \in {VoxelizerInit(vox.points, vox.voxel_size)} :
          vox' = [vox EXCEPT !.kind = "built", !.num_voxels = v.num_voxels,
                             !.indices = v.indices, !.grid_shape = v.grid_shape]
    /\ UNCHANGED <<op, mesh, last, bumpq, idxq>>

VoxVoxelize ==
    /\ vox.kind = "built"
    /\ \E features \in VoxFeatures(Len(vox.points)) :
         \E r \in {VoxelizeRun(vox, features)} :
            vox' = [vox EXCEPT !.kind = "voxelized", !.features = features,
                               !.err = r.err, !.vshape = r.shape, !.voxels = r.val]
    /\ UNCHANGED <<op, mesh, last, bumpq, idxq>>

VoxDevoxelize ==
    /\ vox.kind = "voxelized"
    /\ vox.err = "none"
    /\ vox' = [vox EXCEPT !.kind = "devoxelized",
                          !.out = DevoxelizeRun(vox, vox.voxels)]
    /\ UNCHANGED <<op, mesh, last, bumpq, idxq>>

NextVox == VoxConstruct \/ VoxVoxelize \/ VoxDevoxelize

SpecVox == InitVox /\ [][NextVox]_vars

\* the point set [0.0, 0.05, 1.0, 1.05] with voxel_size = 0.2
Scenario ==
    /\ vox.kind # "idle"
    /\ vox.points = << <<0>>, <<50000>>, <<1000000>>, <<1050000>> >>
    /\ vox.voxel_size = 200000

ScenarioFeatures == vox.features = << << <<1, 1, 5, 5>> >> >>

Constructed == vox.kind \in {"built", "voxelized", "devoxelized"}

\* the raw cluster ids of the points of the voxelizer
RawCluster == GridCluster(Quantize(vox.points, vox.voxel_size))

\* C11: after construction the stored per-point assignment uses exactly the
\* ids 0..num_voxels-1, num_voxels being the recorded voxel count, and two
\* points have the same dense id if and only if they have the same raw id.
DenseAssignment ==
    Constructed =>
        /\ SeqToSet(vox.indices) = 0..(vox.num_voxels - 1)
        /\ \A a, b \in 1..Len(vox.points) :
              (vox.indices[a] = vox.indices[b]) <=> (RawCluster[a] = RawCluster[b])

\* C12: no voxelizer exists whose grid shape has a cell count other than its
\* voxel count, so voxelize never reshapes to a mismatched grid.
GridMatchesVoxelCount ==
    Constructed =>
        /\ Power(IntRoot(vox.num_voxels, Len(vox.points[1])), Len(vox.points[1]))
             = vox.num_voxels
        /\ Product(vox.grid_shape) = vox.num_voxels
        /\ vox.err = "none"

\* the feature array has one value at every point
ConstantFeatures(v) ==
    \A b \in 1..Len(vox.features) : \A c \in 1..Len(vox.features[b]) :
        \A n \in 1..Len(vox.features[b][c]) : vox.features[b][c][n] = v

\* C13: for every constructed voxelizer and every feature array with one
\* value v at every point, voxelize returns a grid and devoxelize of it
\* returns an array of shape (batch, channels, num_points) with v everywhere.
ConstantRoundTrip ==
    \A v \in FeatureValues :
        (vox.kind \in {"voxelized", "devoxelized"} /\ ConstantFeatures(v)) =>
            /\ vox.err = "none"
            /\ vox.kind = "devoxelized" =>
                 vox.out = [b \in 1..Len(vox.features) |->
                              [c \in 1..Len(vox.features[b]) |->
                                 [n \in 1..Len(vox.points) |-> <<v, 1>>]]]

====
